---- MODULE Spec2Model ----
(***************************************************************************)
(* CSV-to-database ETL pipeline: the Loader (src/etl/load.py), the         *)
(* Extractor's file handling (src/etl/extract.py) and the orchestration    *)
(* of process_file / main (src/main.py).                                   *)
(*                                                                         *)
(* Two specifications share the Loader operators:                          *)
(*   SpecLoader  a single-threaded client calling the Loader's methods in  *)
(*               any order against a store holding one target table;       *)
(*   Spec        one run of main(): connect, discovery, then process_file  *)
(*               for every file, sequentially or on a thread pool.         *)
(***************************************************************************)
EXTENDS Integers, Sequences, FiniteSets, Bags, TLC

\* ---------------------------------------------------------------- bounds
\* largest configured max_retries explored
MaxRetries == 2
\* the store fails at most this many connection attempts in a row
MaxOutage == 3
\* largest number of records in one chunk handed to the Loader by the client
MaxChunkRows == 2
\* the client stops loading when the table holds this many rows
MaxTableRows == 2
\* connections the client may open in one behaviour
MaxConns == 2
\* files in the input directory
NumFiles == 2
\* largest configured max_workers (threads of the pool)
MaxWorkers == 2
\* CsvConfig batch_size (rows per extracted chunk)
batch_size == 2

VARIABLES
    \* ---- Loader configuration and fields (Loader.__init__)
    db_type,        \* db_config["type"]
    max_retries,    \* self.max_retries
    engine,         \* self.engine: "None" or "Engine"
    connection,     \* self.connection: 0 (None) or the id of a Connection object
    \* ---- the target store
    live,           \* ids of the connections that are open
    nconn,          \* connections opened so far (the next id is nconn + 1)
    failsLeft,      \* the store fails this many connection attempts from now on
    table,          \* the target table: [exists, rows, pk]
    \* ---- the last Loader call of the client and its outcome (SpecLoader: every
    \* call; Spec: main's connect)
    call,
    \* ---- Spec: one run of main()
    mainPc,         \* position of main()
    parallel,       \* processing_config["parallel"]
    max_workers,    \* processing_config["max_workers"]
    loc,            \* file -> "input" | "archive" | "error"
    data_rows,      \* file -> number of data rows below the header
    csv_files,      \* the list returned by list_csv_files() in main
    queue,          \* work queue of the ThreadPoolExecutor (files not yet started)
    seqIdx,         \* sequential mode: index of the next file of the for loop
    wfile,          \* worker -> file it is running process_file on (0: idle)
    wpc,            \* worker -> position inside process_file
    batch_idx,      \* worker -> enumerate() index of the current chunk
    if_exists,      \* worker -> policy computed for the current load call
    total_rows,     \* worker -> process_file local total_rows
    total_loaded,   \* worker -> process_file local total_loaded
    future,         \* file -> result returned by process_file, or Pending
    results,        \* the elements of main's results list, as a bag (the list is only summed and counted)
    summary,        \* the three sums main logs at the end
    \* ---- history (not read by any action's guard or effect)
    log,            \* file -> sequence of the steps taken for its chunks
    faults,         \* file -> failures injected into the file's run
    dispatched,     \* file -> number of times a worker started it
    \* ---- SpecExtract: one generator of extract_from_file and the file it reads
    gen,
    \* ---- SpecTransform: one Transformer and the call made on it
    xf

loaderVars == <<db_type, max_retries, engine, connection, live, nconn, failsLeft, table>>
runVars == <<mainPc, parallel, max_workers, loc, data_rows, csv_files, queue, seqIdx, wfile, wpc,
             batch_idx, if_exists, total_rows, total_loaded, future, results, summary,
             log, faults, dispatched, gen, xf>>
vars == <<loaderVars, call, runVars>>

\* ------------------------------------------------------------ the Loader
DbTypes == {"postgresql", "MySQL", "sqlite"}
Policies == {"fail", "replace", "append"}
\* where a failing connection attempt raises: in create_engine (self.engine
\* keeps its old value) or in engine.connect() (self.engine is already set)
FailModes == {"create_engine", "engine_connect"}
\* the failure places that can differ now: none does while the store is up
ModesNow == IF failsLeft = 0 THEN {"create_engine"} ELSE FailModes
\* where a failing DataFrame.to_sql raises
ToSqlFaults == {"none", "prep", "insert"}

\* str.lower() on the configured backend kinds
Lower(s) == CASE s = "MySQL" -> "mysql" [] s = "PostgreSQL" -> "postgresql" [] OTHER -> s

NoTable == [exists |-> FALSE, rows |-> 0, pk |-> FALSE]
EmptyTable == [exists |-> TRUE, rows |-> 0, pk |-> FALSE]

\* The Loader's fields and the connection side of the store, as one record the
\* method operators below take and return.  exc is the exception the method
\* raises ("none": it returns), attempts counts the connection attempts made.
LoaderNow ==
    [engine |-> engine, connection |-> connection, live |-> live, nconn |-> nconn,
     failsLeft |-> failsLeft, exc |-> "none", msg |-> "", attempts |-> 0, retries |-> 0]

\* mutant of Supported: every backend kind gets a connection string
SupportedAny(t) == TRUE
\* connect's db_type dispatch: the backend kinds it builds a connection string for
Supported(t) == Lower(t) \in {"postgresql", "mysql"}

\* mutant of MoreAttempts: the loop makes one attempt too many
MoreAttemptsOffByOne(retries) == retries <= max_retries
\* connect's loop condition: while retries < self.max_retries
MoreAttempts(retries) == retries < max_retries

\* connect's retry loop from the state L (mode: where a failing attempt raises).
\* An attempt succeeds iff the store has no failure left; a success sets
\* self.engine and self.connection and returns, a failure counts in retries.
RECURSIVE ConnectLoop(_, _)
ConnectLoop(L, mode) ==
    IF MoreAttempts(L.retries)
    THEN IF L.failsLeft = 0
         THEN [L EXCEPT !.engine = "Engine",
                        !.connection = L.nconn + 1,
                        !.live = @ \cup {L.nconn + 1},
                        !.nconn = @ + 1,
                        !.attempts = @ + 1]
         ELSE ConnectLoop([L EXCEPT !.engine = IF mode = "engine_connect" THEN "Engine" ELSE @,
                                    !.failsLeft = @ - 1,
                                    !.retries = @ + 1,
                                    !.attempts = @ + 1], mode)
    ELSE [L EXCEPT !.exc = "DatabaseError"]

\* Loader.connect
connect(L, mode) ==
    IF ~Supported(db_type)
    THEN [L EXCEPT !.exc = "DatabaseError"]
    ELSE ConnectLoop([L EXCEPT !.retries = 0], mode)

\* mutant of disconnect: closing a connection that is already closed raises
disconnect_once(L) ==
    IF L.connection = 0 THEN L
    ELSE IF L.connection \in L.live THEN [L EXCEPT !.live = @ \ {L.connection}]
    ELSE [L EXCEPT !.exc = "Error"]
\* mutant of disconnect: the connection is left open
disconnect_leaving_open(L) == L
\* Loader.disconnect: closes self.connection when it is set (closing a closed
\* Connection does nothing); the fields stay
disconnect(L) ==
    IF L.connection # 0 THEN [L EXCEPT !.live = @ \ {L.connection}] ELSE L

\* Loader.table_exists: [L, value]; connects first when self.engine is None
table_exists(L, T, mode) ==
    LET L1 == IF L.engine = "None" THEN connect(L, mode) ELSE L
    IN  [L |-> L1, value |-> (L1.exc = "none" /\ T.exists)]

\* Loader.drop_table: DROP TABLE IF EXISTS through self.engine (which the method
\* does not set: without an engine the statement cannot be issued)
drop_table(L, T) ==
    IF L.engine = "None"
    THEN [L |-> [L EXCEPT !.exc = "DatabaseError"], T |-> T]
    ELSE [L |-> L, T |-> NoTable]

\* pandas DataFrame.to_sql of k records: [T, exc].  A missing table is created;
\* an existing one makes "fail" raise, is dropped and recreated by "replace" and
\* is kept by "append".  The insert runs in one transaction.
to_sql(T, k, policy, fault) ==
    IF fault = "prep" \/ (T.exists /\ policy = "fail")
    THEN [T |-> T, exc |-> "Error"]
    ELSE LET T1 == IF T.exists /\ policy = "append" THEN T ELSE EmptyTable
         IN  IF fault = "insert"
             THEN [T |-> T1, exc |-> "Error"]
             ELSE [T |-> [T1 EXCEPT !.rows = @ + k], exc |-> "none"]

\* mutant of CreateEmpty: an existing table is kept by the creation step
CreateEmptyKeeping(T) == IF T.exists THEN T ELSE EmptyTable
\* create_table_from_dataframe's creation step: df.head(0).to_sql(if_exists="replace")
CreateEmpty(T) == to_sql(T, 0, "replace", "none").T

\* mutant of add_primary_key: a rejected key takes the created table away
add_primary_key_undo(L, T, primary_key, pkFails) ==
    IF ~primary_key THEN [L |-> L, T |-> T]
    ELSE IF pkFails
    THEN [L |-> [L EXCEPT !.exc = "DatabaseError", !.msg = "Error adding primary key"],
          T |-> NoTable]
    ELSE [L |-> L, T |-> [T EXCEPT !.pk = TRUE]]
\* Loader._add_primary_key: ALTER TABLE ... ADD CONSTRAINT; pkFails: the store
\* rejects it (msg: the start of the error message the exception carries)
add_primary_key(L, T, primary_key, pkFails) ==
    IF ~primary_key THEN [L |-> L, T |-> T]
    ELSE IF pkFails
    THEN [L |-> [L EXCEPT !.exc = "DatabaseError", !.msg = "Error adding primary key"],
          T |-> T]
    ELSE [L |-> L, T |-> [T EXCEPT !.pk = TRUE]]

\* Loader.create_table_from_dataframe: [L, T]; every exception leaves as DatabaseError
create_table_from_dataframe(L, T, policy, primary_key, pkFails, mode) ==
    LET te == table_exists(L, T, mode)
    IN  IF te.L.exc # "none" THEN [L |-> te.L, T |-> T]
        ELSE IF te.value /\ policy = "fail"
        THEN [L |-> [te.L EXCEPT !.exc = "DatabaseError"], T |-> T]
        ELSE LET d  == IF te.value /\ policy = "replace"
                       THEN drop_table(te.L, T) ELSE [L |-> te.L, T |-> T]
                 T2 == CreateEmpty(d.T)
             IN  add_primary_key(d.L, T2, primary_key, pkFails)

\* Loader.load_dataframe: [L, T, value]; every exception leaves as LoadError
load_dataframe(L, T, k, policy, fault, mode) ==
    LET L1 == IF L.engine = "None" THEN connect(L, mode) ELSE L
        te == table_exists(L1, T, mode)
        ct == IF ~te.value /\ policy # "replace"
              THEN create_table_from_dataframe(te.L, T, "replace", FALSE, FALSE, mode)
              ELSE [L |-> te.L, T |-> T]
        ts == to_sql(ct.T, k, policy, fault)
    IN  IF L1.exc # "none" THEN [L |-> [L1 EXCEPT !.exc = "LoadError"], T |-> T, value |-> 0]
        ELSE IF ct.L.exc # "none"
        THEN [L |-> [ct.L EXCEPT !.exc = "LoadError"], T |-> ct.T, value |-> 0]
        ELSE IF ts.exc # "none"
        THEN [L |-> [ct.L EXCEPT !.exc = "LoadError"], T |-> ts.T, value |-> 0]
        ELSE [L |-> ct.L, T |-> ts.T, value |-> k]

\* Loader.execute_sql: connects first when self.connection is None; executing
\* on a closed connection raises
execute_sql(L, mode) ==
    LET L1 == IF L.connection = 0 THEN connect(L, mode) ELSE L
    IN  IF L1.exc # "none" THEN L1
        ELSE IF L1.connection \in L1.live THEN L1
        ELSE [L1 EXCEPT !.exc = "DatabaseError"]

\* ------------------------------------------------- SpecLoader: the client
Files == 1..NumFiles
Workers == 1..MaxWorkers
Pending == [state |-> "pending"]
NoCall == [op |-> "none"]
\* no generator of extract_from_file is followed
NoGen == [pc |-> "none"]
\* no call on a Transformer is followed
NoXf == [pc |-> "none"]

\* the run of main() has not started: the values its variables keep in SpecLoader
RunIdle ==
    /\ mainPc = "idle"
    /\ parallel = FALSE
    /\ max_workers = 1
    /\ loc = [f \in Files |-> "input"]
    /\ data_rows = [f \in Files |-> 0]
    /\ csv_files = << >>
    /\ queue = << >>
    /\ seqIdx = 1
    /\ wfile = [w \in Workers |-> 0]
    /\ wpc = [w \in Workers |-> "idle"]
    /\ batch_idx = [w \in Workers |-> 0]
    /\ if_exists = [w \in Workers |-> "append"]
    /\ total_rows = [w \in Workers |-> 0]
    /\ total_loaded = [w \in Workers |-> 0]
    /\ future = [f \in Files |-> Pending]
    /\ results = EmptyBag
    /\ summary = NoCall
    /\ log = [f \in Files |-> << >>]
    /\ faults = [f \in Files |-> {}]
    /\ dispatched = [f \in Files |-> 0]

\* Loader.__init__ on a configuration, against a store without the target table
LoaderInit ==
    /\ db_type \in DbTypes
    /\ max_retries \in 1..MaxRetries
    /\ engine = "None"
    /\ connection = 0
    /\ live = {}
    /\ nconn = 0
    /\ failsLeft = 0
    /\ table = NoTable

InitLoader == LoaderInit /\ call = NoCall /\ RunIdle /\ gen = NoGen /\ xf = NoXf

\* the Loader's fields and the store's connection side after a method left them as L
SetLoader(L) ==
    /\ L.nconn <= MaxConns
    /\ engine' = L.engine
    /\ connection' = L.connection
    /\ live' = L.live
    /\ nconn' = L.nconn
    /\ failsLeft' = L.failsLeft
    /\ UNCHANGED <<db_type, max_retries>>

\* what the client records about a call: the state before it and its outcome
\* (pre: the table before a call that can change it; failsBefore: the failures
\* the store had in stock before a call that may connect; fault: the failure
\* the store answers a load's to_sql with)
Outcome(op, policy, k, L, value) ==
    [op |-> op, policy |-> policy, k |-> k, exc |-> L.exc, msg |-> L.msg, value |-> value,
     attempts |-> L.attempts,
     pre |-> IF op \in {"create_table", "drop_table", "load", "round_trip"}
             THEN table ELSE NoTable,
     failsBefore |-> IF op \in {"connect", "load"} THEN failsLeft ELSE 0,
     fault |-> "none"]

\* the store starts failing the next n connection attempts
StoreOutage ==
    \E n \in 1..MaxOutage :
        /\ failsLeft = 0
        /\ failsLeft' = n
        /\ call' = NoCall
        /\ UNCHANGED <<db_type, max_retries, engine, connection, live, nconn, table>>
        /\ UNCHANGED runVars

LConnect ==
    \E mode \in ModesNow :
        \E L \in {connect(LoaderNow, mode)} :
            /\ SetLoader(L)
            /\ call' = Outcome("connect", "none", 0, L, 0)
            /\ UNCHANGED table
            /\ UNCHANGED runVars

\* value: 1 when the call found its connection open
LDisconnect ==
    \E L \in {disconnect(LoaderNow)} :
        /\ SetLoader(L)
        /\ call' = Outcome("disconnect", "none", 0, L, IF connection \in live THEN 1 ELSE 0)
        /\ UNCHANGED table
        /\ UNCHANGED runVars

LTableExists ==
    \E mode \in ModesNow :
        \E r \in {table_exists(LoaderNow, table, mode)} :
            /\ SetLoader(r.L)
            /\ call' = Outcome("table_exists", "none", 0, r.L, IF r.value THEN 1 ELSE 0)
            /\ UNCHANGED table
            /\ UNCHANGED runVars

LCreateTable ==
    \E policy \in Policies, pk \in {<<FALSE, FALSE>>, <<TRUE, FALSE>>, <<TRUE, TRUE>>}, mode \in ModesNow :
        \E r \in {create_table_from_dataframe(LoaderNow, table, policy, pk[1], pk[2], mode)} :
            /\ SetLoader(r.L)
            /\ table' = r.T
            /\ call' = Outcome("create_table", policy, 0, r.L, 0)
            /\ UNCHANGED runVars

LDropTable ==
    \E r \in {drop_table(LoaderNow, table)} :
        /\ SetLoader(r.L)
        /\ table' = r.T
        /\ call' = Outcome("drop_table", "none", 0, r.L, 0)
        /\ UNCHANGED runVars

LLoad ==
    \E k \in 0..MaxChunkRows, policy \in Policies, fault \in ToSqlFaults, mode \in ModesNow :
        \E r \in {load_dataframe(LoaderNow, table, k, policy, fault, mode)} :
            /\ r.T.rows <= MaxTableRows
            /\ SetLoader(r.L)
            /\ table' = r.T
            /\ call' = [Outcome("load", policy, k, r.L, r.value) EXCEPT !.fault = fault]
            /\ UNCHANGED runVars

LExecute ==
    \E mode \in ModesNow :
        \E L \in {execute_sql(LoaderNow, mode)} :
            /\ SetLoader(L)
            /\ call' = Outcome("execute", "none", 0, L, 0)
            /\ UNCHANGED table
            /\ UNCHANGED runVars

\* createTable, then load with policy "append", then a read-back of the row count
LRoundTrip ==
    \E k \in 0..MaxChunkRows, policy \in Policies, mode \in ModesNow :
        \E c \in {create_table_from_dataframe(LoaderNow, table, policy, FALSE, FALSE, mode)} :
        \E r \in {load_dataframe(c.L, c.T, k, "append", "none", mode)} :
            /\ c.L.exc = "none"
            /\ SetLoader(r.L)
            /\ table' = r.T
            /\ call' = Outcome("round_trip", policy, k, r.L, r.value)
            /\ UNCHANGED runVars

NextLoader ==
    \/ StoreOutage
    \/ LConnect
    \/ LDisconnect
    \/ LTableExists
    \/ LCreateTable
    \/ LDropTable
    \/ LLoad
    \/ LExecute
    \/ LRoundTrip

SpecLoader == InitLoader /\ [][NextLoader]_vars

\* ------------------------------------------------ Spec: one run of main()
Stages == {"extract", "transform", "validate", "load", "archive", "quarantine"}

\* the files' sizes explored: header-only, and one row more than a chunk holds
RowChoices == {0, batch_size + 1}

\* Extractor.list_csv_files: the files in the input directory now, in directory order
list_csv_files == SelectSeq([i \in 1..NumFiles |-> i], LAMBDA f : loc[f] = "input")

\* list.index: the 0-based position of x in s (x occurs in s)
Index(s, x) == (CHOOSE i \in 1..Len(s) : s[i] = x) - 1

\* pandas read_csv(chunksize=batch_size) on a file with d data rows: the sizes of
\* the chunks the reader yields (a header-only file yields one empty chunk)
RECURSIVE ChunkSizes(_)
ChunkSizes(d) ==
    IF d <= batch_size THEN <<d>> ELSE <<batch_size>> \o ChunkSizes(d - batch_size)

\* process_file's if_exists argument of load_dataframe for chunk idx of file f
LoadPolicy(idx, f) ==
    IF idx > 0 \/ Index(list_csv_files, f) > 0 THEN "append" ELSE "replace"

\* the dictionary process_file returns
Result(f, success, rows, loaded, error) ==
    [file |-> f, success |-> success, rows_processed |-> rows, rows_loaded |-> loaded,
     error |-> error]

\* sum(g(r) for r in results) over the bag rs of results
RECURSIVE SumResults(_, _)
SumResults(rs, g) ==
    IF rs = EmptyBag THEN 0
    ELSE LET r == CHOOSE x \in BagToSet(rs) : TRUE
         IN  g[r] + SumResults(rs (-) SetToBag({r}), g)
\* the three sums of main's summary
SumLoaded(rs) == SumResults(rs, [r \in BagToSet(rs) |-> r.rows_loaded])
SumProcessed(rs) == SumResults(rs, [r \in BagToSet(rs) |-> r.rows_processed])
CountSuccess(rs) == SumResults(rs, [r \in BagToSet(rs) |-> IF r.success THEN 1 ELSE 0])

\* main() is called: the Loader is constructed (one supported and one unsupported
\* backend kind, the largest retry budget), the store may be down, the target
\* table may be left over from an earlier run, n files wait in the input
\* directory; max_workers is only read in a parallel run
Init ==
    /\ db_type \in {"postgresql", "sqlite"}
    /\ max_retries = MaxRetries
    /\ engine = "None"
    /\ connection = 0
    /\ live = {}
    /\ nconn = 0
    /\ failsLeft \in 0..MaxOutage
    /\ table \in {NoTable, [EmptyTable EXCEPT !.rows = 1]}
    /\ call = NoCall
    /\ mainPc = "connect"
    /\ parallel \in BOOLEAN
    /\ max_workers \in 1..MaxWorkers
    /\ ~parallel => max_workers = 1
    /\ \E n \in 0..NumFiles :
           /\ loc = [f \in Files |-> IF f <= n THEN "input" ELSE "absent"]
           /\ data_rows \in [Files -> RowChoices \cup {0}]
           /\ \A f \in Files : f > n => data_rows[f] = 0
    /\ csv_files = << >>
    /\ queue = << >>
    /\ seqIdx = 1
    /\ wfile = [w \in Workers |-> 0]
    /\ wpc = [w \in Workers |-> "idle"]
    /\ batch_idx = [w \in Workers |-> 0]
    /\ if_exists = [w \in Workers |-> "append"]
    /\ total_rows = [w \in Workers |-> 0]
    /\ total_loaded = [w \in Workers |-> 0]
    /\ future = [f \in Files |-> Pending]
    /\ results = EmptyBag
    /\ summary = NoCall
    /\ log = [f \in Files |-> << >>]
    /\ faults = [f \in Files |-> {}]
    /\ dispatched = [f \in Files |-> 0]
    /\ gen = NoGen
    /\ xf = NoXf

\* ---- main()
\* the variables of the files' runs, left alone by main's own steps
workerVars == <<wfile, wpc, batch_idx, if_exists, total_rows, total_loaded, log, faults,
                dispatched>>
configVars == <<parallel, max_workers, data_rows, gen, xf>>

\* mutant of AfterConnect: main goes on after a connect that raised
AfterConnectGoOn(exc) == "list"
\* where main goes after loader.connect(): on, or to its except clause
AfterConnect(exc) == IF exc = "none" THEN "list" ELSE "fatal"

\* loader.connect() at the start of main; a DatabaseError is fatal to the run
\* (call keeps how the connect ended)
MainConnect ==
    /\ mainPc = "connect"
    /\ \E mode \in ModesNow :
       \E L \in {connect(LoaderNow, mode)} :
           /\ SetLoader(L)
           /\ call' = [op |-> "connect", exc |-> L.exc]
           /\ mainPc' = AfterConnect(L.exc)
    /\ UNCHANGED <<table, configVars, loc, csv_files, queue, seqIdx, future, results,
                   summary, workerVars>>

\* csv_files = extractor.list_csv_files(): raises when the input directory is
\* missing (a missing directory holds no file); main returns when the list is
\* empty
MainList ==
    /\ mainPc = "list"
    /\ \E dirExists \in (IF list_csv_files = << >> THEN BOOLEAN ELSE {TRUE}) :
          IF ~dirExists
          THEN mainPc' = "fatal" /\ UNCHANGED csv_files
          ELSE /\ csv_files' = list_csv_files
               /\ mainPc' = IF list_csv_files = << >> THEN "finally" ELSE "dispatch"
    /\ UNCHANGED <<loaderVars, call, configVars, loc, queue, seqIdx, future, results,
                   summary, workerVars>>

\* the branch on parallel and len(csv_files) > 1; the parallel branch submits
\* every file of csv_files to the executor, in list order
MainDispatch ==
    /\ mainPc = "dispatch"
    /\ IF parallel /\ Len(csv_files) > 1
       THEN queue' = csv_files /\ mainPc' = "as_completed"
       ELSE queue' = queue /\ mainPc' = "sequential"
    /\ UNCHANGED <<loaderVars, call, configVars, loc, csv_files, seqIdx, future, results,
                   summary, workerVars>>

\* mutant of TakeQueue: the task stays in the work queue when a thread takes it
TakeQueueKeeping(q) == q
\* the executor's work queue after a thread took its first task
TakeQueue(q) == Tail(q)

\* the completed futures main has not appended to results yet
Uncollected == {f \in Files : future[f] # Pending /\ \A r \in BagToSet(results) : r.file # f}
\* as_completed wakes main when a future completes.  results.append touches
\* only main's list, which no file's run reads or writes, so the append commutes
\* with every step of the runs and all their interleavings lead to the same
\* states; the one explored is: the woken main thread appends before a run
\* takes its next step
RunsGoOn == ~(mainPc = "as_completed" /\ Uncollected # {})

\* a thread of the pool has no task; the threads are interchangeable, so of the
\* free threads the one with the lowest number takes the next task
ThreadFree(w) ==
    /\ w <= max_workers
    /\ wfile[w] = 0
    /\ \A v \in 1..(w - 1) : wfile[v] # 0

\* process_file starts on file f in thread w: result and counters are initialised
StartFile(w, f) ==
    /\ wfile' = [wfile EXCEPT ![w] = f]
    /\ wpc' = [wpc EXCEPT ![w] = "next"]
    /\ batch_idx' = [batch_idx EXCEPT ![w] = 0]
    /\ total_rows' = [total_rows EXCEPT ![w] = 0]
    /\ total_loaded' = [total_loaded EXCEPT ![w] = 0]
    /\ dispatched' = [dispatched EXCEPT ![f] = @ + 1]
    /\ UNCHANGED <<if_exists, log, faults>>

\* a free thread of the ThreadPoolExecutor takes the next submitted task
Take(w) ==
    /\ mainPc = "as_completed"
    /\ ThreadFree(w)
    /\ RunsGoOn
    /\ queue # << >>
    /\ StartFile(w, Head(queue))
    /\ queue' = TakeQueue(queue)
    /\ UNCHANGED <<loaderVars, call, mainPc, configVars, loc, csv_files, seqIdx, future,
                   results, summary>>

\* the sequential for loop calls process_file on the next file (in main's thread, 1)
SeqCall ==
    /\ mainPc = "sequential"
    /\ seqIdx <= Len(csv_files)
    /\ wfile[1] = 0
    /\ future[csv_files[seqIdx]] = Pending
    /\ StartFile(1, csv_files[seqIdx])
    /\ UNCHANGED <<loaderVars, call, mainPc, configVars, loc, csv_files, queue, seqIdx,
                   future, results, summary>>

\* mutant of NextIndex: the loop ends at the first failed result
NextIndexStopOnFailure(i, r) == IF r.success THEN i + 1 ELSE Len(csv_files) + 1
\* the sequential for loop's next position after process_file returned r for file i
NextIndex(i, r) == i + 1

\* results.append(result): of the file process_file returned for (sequential), of
\* a completed future (parallel, in completion order)
Collect ==
    \/ /\ mainPc = "sequential"
       /\ seqIdx <= Len(csv_files)
       /\ future[csv_files[seqIdx]] # Pending
       /\ results' = results (+) SetToBag({future[csv_files[seqIdx]]})
       /\ seqIdx' = NextIndex(seqIdx, future[csv_files[seqIdx]])
       /\ UNCHANGED <<loaderVars, call, mainPc, configVars, loc, csv_files, queue, future,
                      summary, workerVars>>
    \/ /\ mainPc = "as_completed"
       /\ \E f \in Uncollected : results' = results (+) SetToBag({future[f]})
       /\ UNCHANGED <<loaderVars, call, mainPc, configVars, loc, csv_files, queue, seqIdx,
                      future, summary, workerVars>>

\* every file of the loop has its result: the three sums of the summary
Summarize ==
    /\ \/ mainPc = "sequential" /\ seqIdx > Len(csv_files)
       \/ mainPc = "as_completed" /\ queue = << >>
                                  /\ \A i \in 1..Len(csv_files) : future[csv_files[i]] # Pending
                                  /\ BagCardinality(results) = Len(csv_files)
    /\ summary' = [op |-> "summary", successful |-> CountSuccess(results),
                   files |-> BagCardinality(results), total_rows |-> SumProcessed(results),
                   total_loaded |-> SumLoaded(results)]
    /\ mainPc' = "finally"
    /\ UNCHANGED <<loaderVars, call, configVars, loc, csv_files, queue, seqIdx, future,
                   results, workerVars>>

\* the finally block: loader.disconnect(); after a fatal error the process exits with 1
MainFinally ==
    /\ mainPc \in {"finally", "fatal"}
    /\ \E L \in {disconnect(LoaderNow)} : SetLoader(L)
    /\ mainPc' = IF mainPc = "fatal" THEN "exit1" ELSE "done"
    /\ UNCHANGED <<table, call, configVars, loc, csv_files, queue, seqIdx, future, results,
                   summary, workerVars>>

\* ---- process_file(file_path, ...) in thread w
mainVars == <<mainPc, csv_files, queue, seqIdx, results, summary>>

\* the file and the size of the chunk thread w is working on
FileOf(w) == wfile[w]
\* mutant of ChunkRows: every chunk counts as a full batch
ChunkRowsFull(w) == batch_size
ChunkRows(w) == ChunkSizes(data_rows[FileOf(w)])[batch_idx[w] + 1]

\* history: one step of file f's run
Logged(f, op, idx, w, policy) ==
    log' = [log EXCEPT ![f] = Append(@, [op |-> op, idx |-> idx, w |-> w, policy |-> policy])]

\* process_file returns r for its file: the future completes, the thread is free
\* and the locals are gone
Return(w, r) ==
    /\ future' = [future EXCEPT ![FileOf(w)] = r]
    /\ wfile' = [wfile EXCEPT ![w] = 0]
    /\ wpc' = [wpc EXCEPT ![w] = "idle"]
    /\ batch_idx' = [batch_idx EXCEPT ![w] = 0]
    /\ if_exists' = [if_exists EXCEPT ![w] = "append"]
    /\ total_rows' = [total_rows EXCEPT ![w] = 0]
    /\ total_loaded' = [total_loaded EXCEPT ![w] = 0]

\* the except clauses of process_file: stage raised error; the result keeps
\* success False and both row counts 0
Raise(w, stage, error) ==
    /\ Return(w, Result(FileOf(w), FALSE, 0, 0, error))
    /\ faults' = [faults EXCEPT ![FileOf(w)] = @ \cup stage]
    /\ Logged(FileOf(w), "raise", batch_idx[w], w, error)

\* mutant of extraction_error: a failed relocation's error replaces the original
extraction_error_masked(moved) == IF moved THEN "ExtractionError" ELSE "OSError"
\* the exception extract_from_file's except clause raises after the relocation
\* attempt (moved: the move worked)
extraction_error(moved) == "ExtractionError"

\* mutant of move_file_to_error: the failed file is left in the input directory
move_file_to_error_stay(f, moved) == loc
\* mutant of move_file_to_error: the failed file is put into the archive directory
move_file_to_error_archive(f, moved) == IF moved THEN [loc EXCEPT ![f] = "archive"] ELSE loc
\* Extractor._move_file_to_error: the file's place after it (moved: the move worked)
move_file_to_error(f, moved) == IF moved THEN [loc EXCEPT ![f] = "error"] ELSE loc

\* the for statement asks extract_from_file's generator for the next chunk.
\* First request: get_csv_schema, validate_schema, read_csv; every request: the
\* reader parses one chunk.  A failure moves the file to the error directory and
\* raises ExtractionError; the end of the file leads to archive_file.
ExtractNext(w) ==
    /\ wpc[w] = "next"
    /\ RunsGoOn
    /\ \/ \E moved \in BOOLEAN :
             /\ loc' = move_file_to_error(FileOf(w), moved)
             /\ Raise(w, IF moved THEN {"extract"} ELSE {"extract", "quarantine"},
                      extraction_error(moved))
             /\ UNCHANGED dispatched
       \/ /\ batch_idx[w] >= Len(ChunkSizes(data_rows[FileOf(w)]))
          /\ wpc' = [wpc EXCEPT ![w] = "archive"]
          /\ UNCHANGED <<loc, wfile, batch_idx, if_exists, total_rows, total_loaded, future,
                         log, faults, dispatched>>
       \/ /\ batch_idx[w] < Len(ChunkSizes(data_rows[FileOf(w)]))
          /\ total_rows' = [total_rows EXCEPT ![w] = @ + ChunkRows(w)]
          /\ wpc' = [wpc EXCEPT ![w] = "transform"]
          /\ Logged(FileOf(w), "chunk", batch_idx[w], w, "none")
          /\ UNCHANGED <<loc, wfile, batch_idx, if_exists, total_loaded, future, faults,
                         dispatched>>
    /\ UNCHANGED <<loaderVars, call, configVars, mainVars>>

\* mutant of AfterFailure: a chunk that fails is skipped and the loop goes on
AfterFailureSkip(w, stage, error) ==
    /\ wpc' = [wpc EXCEPT ![w] = "next"]
    /\ batch_idx' = [batch_idx EXCEPT ![w] = @ + 1]
    /\ faults' = [faults EXCEPT ![FileOf(w)] = @ \cup stage]
    /\ Logged(FileOf(w), "raise", batch_idx[w], w, error)
    /\ UNCHANGED <<wfile, if_exists, total_rows, total_loaded, future>>
\* a step of the chunk loop's body raised: the exception leaves the for loop and
\* reaches process_file's except clauses
AfterFailure(w, stage, error) == Raise(w, stage, error)

\* transformer.transform(df, transformations)
Transform(w) ==
    /\ wpc[w] = "transform"
    /\ RunsGoOn
    /\ \/ AfterFailure(w, {"transform"}, "TransformationError")
       \/ /\ wpc' = [wpc EXCEPT ![w] = "validate"]
          /\ Logged(FileOf(w), "transform", batch_idx[w], w, "none")
          /\ UNCHANGED <<wfile, batch_idx, if_exists, total_rows, total_loaded, future, faults>>
    /\ UNCHANGED <<loaderVars, call, configVars, mainVars, loc, dispatched>>

\* transformer.validate_data(transformed_df, validations) (main's list is not empty)
Validate(w) ==
    /\ wpc[w] = "validate"
    /\ RunsGoOn
    /\ \/ AfterFailure(w, {"validate"}, "ValidationError")
       \/ /\ wpc' = [wpc EXCEPT ![w] = "policy"]
          /\ Logged(FileOf(w), "validate", batch_idx[w], w, "none")
          /\ UNCHANGED <<wfile, batch_idx, if_exists, total_rows, total_loaded, future, faults>>
    /\ UNCHANGED <<loaderVars, call, configVars, mainVars, loc, dispatched>>

\* the arguments of loader.load_dataframe are evaluated (list_csv_files is called
\* again here) and the call is issued
ComputePolicy(w) ==
    /\ wpc[w] = "policy"
    /\ RunsGoOn
    /\ if_exists' = [if_exists EXCEPT ![w] = LoadPolicy(batch_idx[w], FileOf(w))]
    /\ wpc' = [wpc EXCEPT ![w] = "load_check"]
    /\ Logged(FileOf(w), "load", batch_idx[w], w, LoadPolicy(batch_idx[w], FileOf(w)))
    /\ UNCHANGED <<loaderVars, call, configVars, mainVars, loc, wfile, batch_idx, total_rows,
                   total_loaded, future, faults, dispatched>>

\* load_dataframe: connect when there is no engine, then the table_exists test
LoadCheck(w) ==
    /\ wpc[w] = "load_check"
    /\ RunsGoOn
    /\ \E mode \in ModesNow :
       \E L1 \in {IF engine = "None" THEN connect(LoaderNow, mode) ELSE LoaderNow} :
       \E te \in {table_exists(L1, table, mode)} :
           /\ SetLoader(te.L)
           /\ IF te.L.exc # "none"
              THEN AfterFailure(w, {"load"}, "LoadError")
              ELSE /\ wpc' = [wpc EXCEPT ![w] =
                                 IF ~te.value /\ if_exists[w] # "replace"
                                 THEN "load_create" ELSE "load_tosql"]
                   /\ UNCHANGED <<wfile, batch_idx, if_exists, total_rows, total_loaded,
                                  future, faults, log>>
    /\ UNCHANGED <<table, call, configVars, mainVars, loc, dispatched>>

\* load_dataframe: create_table_from_dataframe(df, table_name, schema, if_exists="replace")
LoadCreate(w) ==
    /\ wpc[w] = "load_create"
    /\ RunsGoOn
    /\ \E mode \in ModesNow :
       \E r \in {create_table_from_dataframe(LoaderNow, table, "replace", FALSE, FALSE, mode)} :
           /\ SetLoader(r.L)
           /\ table' = r.T
           /\ IF r.L.exc # "none"
              THEN AfterFailure(w, {"load"}, "LoadError")
              ELSE /\ wpc' = [wpc EXCEPT ![w] = "load_tosql"]
                   /\ UNCHANGED <<wfile, batch_idx, if_exists, total_rows, total_loaded,
                                  future, faults, log>>
    /\ UNCHANGED <<call, configVars, mainVars, loc, dispatched>>

\* load_dataframe: df.to_sql(..., if_exists=if_exists), rows_loaded = len(df);
\* back in process_file total_loaded grows and the loop goes to the next chunk
LoadToSql(w) ==
    /\ wpc[w] = "load_tosql"
    /\ RunsGoOn
    /\ \E fault \in ToSqlFaults :
       \E ts \in {to_sql(table, ChunkRows(w), if_exists[w], fault)} :
           /\ table' = ts.T
           /\ IF ts.exc # "none"
              THEN AfterFailure(w, {"load"}, "LoadError")
              ELSE /\ total_loaded' = [total_loaded EXCEPT ![w] = @ + ChunkRows(w)]
                   /\ batch_idx' = [batch_idx EXCEPT ![w] = @ + 1]
                   /\ wpc' = [wpc EXCEPT ![w] = "next"]
                   /\ Logged(FileOf(w), "loaded", batch_idx[w], w, if_exists[w])
                   /\ UNCHANGED <<wfile, if_exists, total_rows, future, faults>>
    /\ UNCHANGED <<db_type, max_retries, engine, connection, live, nconn, failsLeft, call,
                   configVars, mainVars, loc, dispatched>>

\* extractor.archive_file(file_path), then the result is filled in and returned;
\* a failing move raises ExtractionError and the file stays where it is
Archive(w) ==
    /\ wpc[w] = "archive"
    /\ RunsGoOn
    /\ \/ /\ Raise(w, {"archive"}, "ExtractionError")
          /\ UNCHANGED loc
       \/ /\ loc' = [loc EXCEPT ![FileOf(w)] = "archive"]
          /\ Return(w, Result(FileOf(w), TRUE, total_rows[w], total_loaded[w], "none"))
          /\ Logged(FileOf(w), "archive", batch_idx[w], w, "none")
          /\ UNCHANGED faults
    /\ UNCHANGED <<loaderVars, call, configVars, mainVars, dispatched>>

Next ==
    \/ MainConnect
    \/ MainList
    \/ MainDispatch
    \/ SeqCall
    \/ Collect
    \/ Summarize
    \/ MainFinally
    \/ \E w \in Workers :
          \/ Take(w)
          \/ ExtractNext(w)
          \/ Transform(w)
          \/ Validate(w)
          \/ ComputePolicy(w)
          \/ LoadCheck(w)
          \/ LoadCreate(w)
          \/ LoadToSql(w)
          \/ Archive(w)

Spec == Init /\ [][Next]_vars

\* the run of main() with its threads scheduled: the main thread and the pool's
\* threads are run by the interpreter as long as they have a step to take, and
\* every store and file operation returns or raises
SpecFair == Spec /\ WF_vars(Next)

\* ------------------------------ SpecExtract: one call of extract_from_file
\* the column names headers and expected schemas are made of
Cols == {"id", "name"}
\* the largest file read: two full chunks and one row more
MaxFileRows == 2 * batch_size + 1
\* the file the generator reads
GenFile == 1
\* the variables of the run of main() other than that file's place
runRest == <<mainPc, parallel, max_workers, data_rows, csv_files, queue, seqIdx, wfile, wpc,
             batch_idx, if_exists, total_rows, total_loaded, future, results, summary,
             log, faults, dispatched, xf>>

Min(a, b) == IF a < b THEN a ELSE b

\* mutant of validate_schema: a column that is not expected is rejected
validate_schema_exact(schema, expected_schema) ==
    IF expected_schema = {} THEN schema # {} ELSE expected_schema = schema
\* mutant of validate_schema: every schema is accepted
validate_schema_lax(schema, expected_schema) == TRUE
\* Extractor.validate_schema on column sets: TRUE when it returns, FALSE when it
\* raises ValidationError (no expected schema: the file must have a column;
\* otherwise no expected column may be missing)
validate_schema(schema, expected_schema) ==
    IF expected_schema = {} THEN schema # {} ELSE expected_schema \ schema = {}

\* mutant of ReadChunk: the reader parses one row more than the chunk size
ReadChunkLong(pos, d) == [i \in 1..Min(batch_size + 1, d - pos) |-> pos + i]
\* one read of the chunked reader of read_csv(chunksize=batch_size), positioned
\* after row pos of a file with d data rows: the rows of the next chunk
ReadChunk(pos, d) == [i \in 1..Min(batch_size, d - pos) |-> pos + i]

\* extract_from_file(file_path, expected_schema) is called on a file in the input
\* directory: the file is empty (no header line) or has a header and d data
\* rows, of which row badRow (0: none) cannot be parsed; canMove: a relocation
\* of the file will work
InitExtract ==
    /\ LoaderInit /\ db_type = "postgresql" /\ max_retries = MaxRetries
    /\ call = NoCall
    /\ RunIdle
    /\ xf = NoXf
    /\ \E hasHeader \in BOOLEAN, header \in SUBSET Cols, expected \in SUBSET Cols,
          d \in 0..MaxFileRows, bad \in 0..MaxFileRows, canMove \in BOOLEAN :
          /\ bad <= d
          /\ ~hasHeader => (d = 0 /\ header = {})
          /\ gen = [pc |-> "start", hasHeader |-> hasHeader, header |-> header,
                    expected |-> expected, rows |-> d, badRow |-> bad, canMove |-> canMove,
                    checked |-> FALSE, pos |-> 0, chunks |-> << >>,
                    exc |-> "none", cause |-> "none", moved_to |-> "none"]

\* extract_from_file's except clause in the generator state g, reached by the
\* exception cause: the file is relocated (_move_file_to_error returns the new
\* path, or the old one when the move failed) and ExtractionError is raised:
\* the generator is finished
GenFail(g, cause) ==
    /\ loc' = move_file_to_error(GenFile, g.canMove)
    /\ gen' = [g EXCEPT !.pc = "raised",
                        !.exc = extraction_error(g.canMove),
                        !.cause = cause,
                        !.moved_to = IF g.canMove THEN "error" ELSE "input"]

\* next() on the generator.  The first request runs get_csv_schema (raises on a
\* file without header line), validate_schema and read_csv before the loop;
\* every request has the reader parse one chunk, which is yielded.  The reader
\* is exhausted when no row is left, except that its first read yields an
\* empty chunk.
GenNext ==
    /\ gen.pc \in {"start", "suspended"}
    /\ LET first == gen.pc = "start"
           chunk == ReadChunk(gen.pos, gen.rows)
           g     == [gen EXCEPT !.checked = TRUE]
       IN  IF first /\ ~gen.hasHeader
           THEN GenFail(gen, "ExtractionError")
           ELSE IF first /\ ~validate_schema(gen.header, gen.expected)
           THEN GenFail(gen, "ValidationError")
           ELSE IF gen.badRow \in {chunk[i] : i \in 1..Len(chunk)}
           THEN GenFail(g, "ParserError")
           ELSE IF chunk = << >> /\ ~first
           THEN gen' = [g EXCEPT !.pc = "done"] /\ UNCHANGED loc
           ELSE /\ gen' = [g EXCEPT !.pc = "suspended",
                                    !.pos = @ + Len(chunk),
                                    !.chunks = Append(@, chunk)]
                /\ UNCHANGED loc
    /\ UNCHANGED <<loaderVars, call, runRest>>

\* the consumer leaves its for loop while the generator is suspended at its
\* yield: the generator is closed (GeneratorExit is no Exception: the except
\* clause does not run)
GenClose ==
    /\ gen.pc = "suspended"
    /\ gen' = [gen EXCEPT !.pc = "closed"]
    /\ UNCHANGED <<loaderVars, call, runRest, loc>>

NextExtract == GenNext \/ GenClose

SpecExtract == InitExtract /\ [][NextExtract]_vars

\* ------------------------------------- SpecTransform: one Transformer
\* A chunk (DataFrame) is a function from its column names to the cells of
\* its two rows. Cells are strings: Null is a missing value (NaN), "nan" the
\* text astype(str) makes of one.
MaxSteps == 2
Null == "NULL"
Pairs(S) == {<<a, b>> : a, b \in S}
CellsOf(c) == IF c = "id" THEN {Null, "1", "2"} ELSE {Null, "x"}
Frames ==
    {f \in UNION {[cs -> Pairs({Null, "1", "2", "x"})] : cs \in SUBSET Cols} :
        \A c \in DOMAIN f : \A i \in 1..2 : f[c][i] \in CellsOf(c)}
SeqsUpTo(S, n) == UNION {[1..k -> S] : k \in 0..n}
IsNumber(v) == v \in {"1", "2"}
Num(v) == IF v = "1" THEN 1 ELSE 2
\* a column read from a CSV has dtype object when it holds text
IsObject(cells) == \E i \in DOMAIN cells : cells[i] # Null /\ ~IsNumber(cells[i])
\* Series.astype(str) of a cell
AsStr(v) == IF v = Null THEN "nan" ELSE v
\* the outcome of a step: the chunk it returns, or the exception it raises
Ok(df) == [exc |-> "none", df |-> df]
Err(e) == [exc |-> e, df |-> << >>]

\* A transformation is [type, key, value]: its mapping / columns / params
\* hold the one entry key -> value (for drop_columns the one column key, for
\* custom the registry name key and the params {value.param: value.arg}).
Transformations ==
    {[type |-> "rename_columns", key |-> "name", value |-> "full_name"],
     [type |-> "drop_columns", key |-> "name", value |-> ""],
     [type |-> "fill_na", key |-> "name", value |-> "1"],
     [type |-> "convert_types", key |-> "name", value |-> "int"],
     [type |-> "convert_types", key |-> "id", value |-> "int64"],
     [type |-> "custom", key |-> "clean", value |-> "columns=name"],
     [type |-> "uppercase", key |-> "", value |-> ""]}
\* the callables a client registers: the Transformer's own two helpers
Callables == {"standardize_text", "add_date_parts"}
Names == {"clean"}

rename_columns(df, old, new) ==
    LET to(c) == IF c = old THEN new ELSE c
    IN  [n \in {to(c) : c \in DOMAIN df} |-> df[CHOOSE c \in DOMAIN df : to(c) = n]]
drop_columns(df, column) == [c \in DOMAIN df \ {column} |-> df[c]]
fill_na(df, column, value) ==
    [c \in DOMAIN df |->
        IF c = column THEN [i \in 1..2 |-> IF df[c][i] = Null THEN value ELSE df[c][i]]
        ELSE df[c]]
\* _convert_types for one column: "int" coerces what is no number to NA, "str"
\* makes text of every cell, any other dtype goes to astype, which raises on a
\* cell it cannot cast
convert_types(df, column, dtype) ==
    IF column \notin DOMAIN df THEN Ok(df)
    ELSE IF dtype = "int"
         THEN Ok([df EXCEPT ![column] =
                     [i \in 1..2 |-> IF IsNumber(df[column][i]) THEN df[column][i] ELSE Null]])
    ELSE IF dtype = "str"
         THEN Ok([df EXCEPT ![column] = [i \in 1..2 |-> AsStr(df[column][i])]])
    ELSE IF \A i \in 1..2 : IsNumber(df[column][i]) THEN Ok(df)
    ELSE Err("TransformationError")
\* standardize_text(df, columns=[column]): text columns are lowered and stripped
\* after astype(str)
standardize_text(df, column) ==
    IF column \in DOMAIN df /\ IsObject(df[column])
    THEN [df EXCEPT ![column] = [i \in 1..2 |-> AsStr(df[column][i])]]
    ELSE df
\* add_date_parts(df, date_column) for a date_column the chunk does not have
add_date_parts(df, date_column) == df
\* fn(df, **params) with params = {"columns": ["name"]}: add_date_parts has no
\* such parameter, the call raises TypeError
CallCustom(fn, df, value) ==
    IF fn = "standardize_text" THEN Ok(standardize_text(df, "name"))
    ELSE Err("TypeError")
\* register_transformation
register_transformation(registry, name, fn) ==
    [n \in DOMAIN registry \cup {name} |-> IF n = name THEN fn ELSE registry[n]]
\* the "custom" branch of transform
custom_strict(registry, t, df) ==
    IF t.key \in DOMAIN registry THEN CallCustom(registry[t.key], df, t.value)
    ELSE Err("KeyError")
custom(registry, t, df) ==
    IF t.key \in DOMAIN registry THEN CallCustom(registry[t.key], df, t.value)
    ELSE Ok(df)
\* one pass of transform's loop body over the transformation t
Handle(registry, t, df) ==
    IF t.type = "rename_columns" THEN Ok(rename_columns(df, t.key, t.value))
    ELSE IF t.type = "drop_columns" THEN Ok(drop_columns(df, t.key))
    ELSE IF t.type = "fill_na" THEN Ok(fill_na(df, t.key, t.value))
    ELSE IF t.type = "convert_types" THEN convert_types(df, t.key, t.value)
    ELSE IF t.type = "custom" THEN custom(registry, t, df)
    ELSE Ok(df)
\* the chunk a pass of the loop works on: transformed_df
CarriedFromInput(x) == x.input
Carried(x) == x.df

\* A validation is [type, columns, arg]: not_null and unique name a list of
\* columns, range (arg: min) and regex (arg: pattern) the one column, custom
\* the function arg ("None": the rule has no "function").
Validations ==
    {[type |-> "not_null", columns |-> <<"name", "id">>, arg |-> ""],
     [type |-> "unique", columns |-> <<"id">>, arg |-> ""],
     [type |-> "range", columns |-> <<"id">>, arg |-> "2"],
     [type |-> "regex", columns |-> <<"name">>, arg |-> "x"],
     [type |-> "custom", columns |-> << >>, arg |-> "has_id"],
     [type |-> "custom", columns |-> << >>, arg |-> "None"],
     [type |-> "length", columns |-> << >>, arg |-> ""]}
\* the rule v raises on the chunk df: ValidationError itself, or an exception
\* (KeyError of a missing column, TypeError) validate_data turns into one
Fails(v, df) ==
    LET missing == \E k \in DOMAIN v.columns : v.columns[k] \notin DOMAIN df
        col     == df[v.columns[1]]
    IN  IF v.type = "not_null"
        THEN missing \/ \E k \in DOMAIN v.columns : \E i \in 1..2 : df[v.columns[k]][i] = Null
        ELSE IF v.type = "unique"
        THEN missing \/ \E k \in DOMAIN v.columns : df[v.columns[k]][1] = df[v.columns[k]][2]
        ELSE IF v.type = "range"
        THEN missing \/ IsObject(col) \/ \E i \in 1..2 : IsNumber(col[i]) /\ Num(col[i]) < Num(v.arg)
        ELSE IF v.type = "regex"
        THEN missing \/ \E i \in 1..2 : AsStr(col[i]) # v.arg
        ELSE IF v.type = "custom"
        THEN v.arg = "None" \/ "id" \notin DOMAIN df
        ELSE FALSE
\* validate_data's raise of ValidationError out of the loop
OnFailureGoOn(x) == [x EXCEPT !.exc = "ValidationError", !.i = @ + 1]
OnFailure(x) == [x EXCEPT !.pc = "raised", !.exc = "ValidationError"]

InitTransform ==
    /\ LoaderInit /\ db_type = "postgresql" /\ max_retries = MaxRetries
    /\ call = NoCall
    /\ RunIdle
    /\ gen = NoGen
    /\ \E df \in Frames :
          \/ \E ts \in SeqsUpTo(Transformations, MaxSteps) :
                xf = [op |-> "transform", pc |-> "setup", input |-> df, given |-> df, df |-> << >>, list |-> ts,
                      i |-> 1, run |-> 0, registry |-> << >>, last |-> << >>,
                      at_call |-> << >>, trace |-> << >>, out |-> << >>, before |-> << >>,
                      latest |-> << >>,
                      exc |-> "none", evaluated |-> << >>, invoked |-> {}]
          \/ \E vs \in SeqsUpTo(Validations, MaxSteps) :
                xf = [op |-> "validate_data", pc |-> "validate", input |-> df, given |-> df, df |-> df, list |-> vs,
                      i |-> 1, run |-> 0, registry |-> << >>, last |-> << >>,
                      at_call |-> << >>, trace |-> << >>, out |-> << >>, before |-> << >>,
                      latest |-> << >>,
                      exc |-> "none", evaluated |-> << >>, invoked |-> {}]

xfRest == <<loaderVars, call, mainPc, parallel, max_workers, loc, data_rows, csv_files, queue,
            seqIdx, wfile, wpc, batch_idx, if_exists, total_rows, total_loaded, future,
            results, summary, log, faults, dispatched, gen>>

\* transformer.register_transformation(name, fn), before a call of transform
Register ==
    /\ xf.op = "transform" /\ xf.pc \in {"setup", "returned"}
    /\ xf.run < 2
    /\ \E name \in Names, fn \in Callables :
          xf' = [xf EXCEPT !.registry = register_transformation(@, name, fn),
                           !.last = [n \in DOMAIN @ \cup {name} |->
                                        IF n = name THEN fn ELSE @[n]]]
    /\ UNCHANGED xfRest

\* transformer.transform(df, transformations) is called, a first and a second
\* time: transformed_df = df.copy()
TransformCall ==
    /\ xf.op = "transform" /\ xf.pc \in {"setup", "returned"}
    /\ xf.run < 2
    /\ xf' = [xf EXCEPT !.pc = "transform", !.run = @ + 1, !.df = xf.input, !.i = 1,
                        !.at_call = Append(@, xf.registry), !.before = xf.out,
                        !.latest = xf.last,
                        !.trace = <<xf.input>>, !.out = << >>]
    /\ UNCHANGED xfRest

\* one pass of transform's loop, or its return after the last
TransformStep ==
    /\ xf.pc = "transform"
    /\ IF xf.i > Len(xf.list)
       THEN xf' = [xf EXCEPT !.pc = "returned", !.out = xf.df]
       ELSE LET r == Handle(xf.registry, xf.list[xf.i], Carried(xf))
            IN  IF r.exc # "none"
                THEN xf' = [xf EXCEPT !.pc = "raised", !.exc = "TransformationError"]
                ELSE xf' = [xf EXCEPT !.df = r.df, !.i = @ + 1, !.trace = Append(@, r.df)]
    /\ UNCHANGED xfRest

\* one pass of validate_data's loop, or its return after the last
ValidateStep ==
    /\ xf.pc = "validate"
    /\ IF xf.i > Len(xf.list)
       THEN xf' = [xf EXCEPT !.pc = IF xf.exc = "none" THEN "returned" ELSE "raised"]
       ELSE LET v == xf.list[xf.i]
                x == [xf EXCEPT !.evaluated = Append(@, xf.i),
                                !.invoked = IF v.type = "custom" /\ v.arg # "None"
                                            THEN @ \cup {xf.i} ELSE @]
            IN  IF Fails(v, xf.df) THEN xf' = OnFailure(x)
                ELSE xf' = [x EXCEPT !.i = @ + 1]
    /\ UNCHANGED xfRest

NextTransform == Register \/ TransformCall \/ TransformStep \/ ValidateStep

SpecTransform == InitTransform /\ [][NextTransform]_vars

\* ------------------------------------------------------------- properties
\* the files main discovered, the entries of a file's log, the result of a file
Discovered == {csv_files[i] : i \in 1..Len(csv_files)}
LogIdx(f) == 1..Len(log[f])
\* the number of results collected for file f
ResultsOf(f) == BagCardinality([r \in {x \in BagToSet(results) : x.file = f} |-> results[r]])
\* the run reached the summary: every result is in
RunComplete == summary # NoCall
\* a thread is inside loader.load_dataframe
InLoad(w) == wpc[w] \in {"load_check", "load_create", "load_tosql"}
\* the files whose process_file has started and not returned
InFlight == {f \in Files : dispatched[f] >= 1 /\ future[f] = Pending}
\* the sum of g[f] over the files of S
RECURSIVE SumOver(_, _)
SumOver(S, g) ==
    IF S = {} THEN 0 ELSE LET f == CHOOSE x \in S : TRUE IN g[f] + SumOver(S \ {f}, g)

\* C1: the only load call issued with policy "replace" is the one for the first
\* chunk of the first discovered file; every other load call is issued with
\* "append", whatever files have left the input directory in the meantime.
C1_ReplaceOnlyFirstChunkOfFirstFile ==
    \A f \in Files : \A i \in LogIdx(f) :
        log[f][i].op = "load" =>
            (log[f][i].policy = "replace" <=> (f = csv_files[1] /\ log[f][i].idx = 0))

\* C2: a file whose run failed in extraction, transform, validate or load (the
\* relocation itself working) is in the error directory once its failed result
\* is recorded.
C2_FailedFileQuarantined ==
    \A r \in BagToSet(results) :
        (~r.success /\ faults[r.file] \subseteq {"extract", "transform", "validate", "load"})
        => loc[r.file] = "error"

\* C3: when exactly one discovered file k fails, in extraction, and nothing else
\* fails in the run, the run ends with N-1 successful results and one failed
\* result, for k, with k in the error directory and every other file archived.
C3_PartialFailureIsolation ==
    \A k \in Discovered :
        (/\ mainPc = "done"
         /\ faults[k] = {"extract"}
         /\ \A f \in Discovered \ {k} : faults[f] = {})
        => /\ BagCardinality(results) = Len(csv_files)
           /\ Cardinality({f \in Discovered : future[f].success}) = Len(csv_files) - 1
           /\ \A r \in BagToSet(results) : r.success <=> r.file # k
           /\ \A f \in Discovered : ResultsOf(f) = 1
           /\ loc[k] = "error"
           /\ \A f \in Discovered \ {k} : loc[f] = "archive"
\* C3 witness: a finished run over two files, one of which failed in extraction
C3_Witness ==
    /\ mainPc = "done"
    /\ Len(csv_files) = 2
    /\ \E k \in Discovered : /\ faults[k] = {"extract"}
                             /\ \A f \in Discovered \ {k} : faults[f] = {} /\ loc[f] = "archive"

\* C4: whatever fails in the files' runs, the run starts process_file once for
\* every discovered file and collects exactly one result per file, and the
\* summary's success count and row totals are those of the files' results.
C4_OneResultPerFile ==
    RunComplete =>
        /\ BagCardinality(results) = Len(csv_files)
        /\ \A f \in Discovered : dispatched[f] = 1 /\ ResultsOf(f) = 1
        /\ \A f \in Discovered : BagIn(future[f], results)
        /\ summary.successful = Cardinality({f \in Discovered : future[f].success})
        /\ summary.total_rows = SumOver(Discovered, [f \in Files |-> future[f].rows_processed])
        /\ summary.total_loaded = SumOver(Discovered, [f \in Files |-> future[f].rows_loaded])
\* C4 witness: a summary over two files, the first failed and the second succeeded
\* with rows loaded
C4_Witness ==
    /\ RunComplete
    /\ Len(csv_files) = 2
    /\ ~future[csv_files[1]].success
    /\ future[csv_files[2]].success
    /\ summary.total_loaded > 0

\* C6: in a file's run the chunks are handled in read order: a step on chunk
\* n+1 comes after the load of chunk n has returned, and after a step of a chunk
\* has failed no chunk of the file is transformed, validated or loaded.
C6_ChunksInReadOrder ==
    \A f \in Files : \A j \in LogIdx(f) :
        /\ j > 1 => log[f][j - 1].idx <= log[f][j].idx
        /\ (log[f][j].op \in {"chunk", "transform", "validate", "load", "loaded"}
               /\ log[f][j].idx > 0)
           => \E i \in 1..(j - 1) : log[f][i].op = "loaded" /\ log[f][i].idx = log[f][j].idx - 1
        /\ log[f][j].op = "raise" => j = Len(log[f])
\* C6 witness: a file whose first chunk was loaded and whose second chunk failed
C6_Witness ==
    \E f \in Files : \E i \in LogIdx(f) :
        /\ log[f][i].op = "loaded" /\ log[f][i].idx = 0
        /\ log[f][Len(log[f])].op = "raise"
        /\ log[f][Len(log[f])].idx = 1
        /\ log[f][Len(log[f])].policy \in {"TransformationError", "LoadError"}

\* C7: no two threads are inside load_dataframe at the same time.
C7_LoadSerialized ==
    \A v \in Workers : \A w \in Workers : (v # w) => ~(InLoad(v) /\ InLoad(w))

\* C8: in a parallel run every file is started at most once (exactly once when
\* the run is complete), all steps of a file are taken by one thread, and no
\* more than max_workers files are in flight.
C8_OneWorkerPerFile ==
    (parallel /\ Len(csv_files) > 1) =>
        /\ \A f \in Files : dispatched[f] <= 1
        /\ \A f \in Files : \A i \in LogIdx(f) : log[f][i].w = log[f][1].w
        /\ Cardinality(InFlight) <= max_workers
        /\ RunComplete => \A f \in Discovered : dispatched[f] = 1
\* C8 witness: a complete parallel run in which two threads each ran a file,
\* loading a chunk
C8_Witness ==
    /\ parallel /\ RunComplete
    /\ \E f \in Files : \E g \in Files :
          /\ \E i \in LogIdx(f) : log[f][i].op = "loaded" /\ log[f][i].w = 1
          /\ \E j \in LogIdx(g) : log[g][j].op = "loaded" /\ log[g][j].w = 2

\* C5: connect on a supported backend returns after exactly r attempts, with an
\* open connection, when the store fails the first r-1 <  max_retries attempts,
\* and raises DatabaseError after exactly max_retries attempts when the store
\* fails them all.
C5_ConnectRetry ==
    (call.op = "connect" /\ Supported(db_type)) =>
        /\ call.failsBefore < max_retries =>
              /\ call.exc = "none"
              /\ call.attempts = call.failsBefore + 1
              /\ connection \in live /\ engine = "Engine"
        /\ call.failsBefore >= max_retries =>
              /\ call.exc = "DatabaseError"
              /\ call.attempts = max_retries
\* C5 witness: a connect that succeeded at its second or a later attempt
C5_Witness ==
    /\ call.op = "connect" /\ call.exc = "none"
    /\ call.failsBefore >= 1 /\ call.attempts = call.failsBefore + 1

\* C9: create_table_from_dataframe on an existing table: "fail" raises
\* DatabaseError and leaves the table as it was, "replace" leaves an empty
\* table, "append" leaves the table and its rows as they were.
C9_CreateTableOnExisting ==
    (call.op = "create_table" /\ call.pre.exists) =>
        /\ call.policy = "fail" => (call.exc = "DatabaseError" /\ table = call.pre)
        /\ call.policy = "replace" => (table.exists /\ table.rows = 0)
        /\ call.policy = "append" => (table.exists /\ table.rows = call.pre.rows)

C11_LoadOnMissingTable ==
    (call.op = "load" /\ ~call.pre.exists) =>
        /\ call.exc \in {"none", "LoadError"}
        /\ (/\ call.policy \in {"append", "fail"}
            /\ call.fault = "none" /\ call.failsBefore = 0 /\ Supported(db_type))
           => /\ call.exc = "none"
              /\ call.value = call.k
              /\ table.exists /\ table.rows = call.k
\* C11, policy "append" alone: the part of the claim the code keeps
C11_AppendOnMissingTable ==
    (/\ call.op = "load" /\ ~call.pre.exists /\ call.policy \in {"append", "replace"}
     /\ call.fault = "none" /\ call.failsBefore = 0 /\ Supported(db_type))
    => /\ call.exc = "none"
       /\ call.value = call.k
       /\ table.exists /\ table.rows = call.k

\* a second drop_table right after the call just made: same outcome, nothing changes
DropAgainSame ==
    LET r == drop_table(LoaderNow, table)
    IN  r.T = table /\ r.L.exc = call.exc /\ [r.L EXCEPT !.exc = "none"] = LoaderNow

\* C12: drop_table on a missing table returns without raising and leaves the
\* store as it was, whatever the Loader's state; a second call in a row changes
\* nothing more.
C12_DropMissingAnyLoader ==
    call.op = "drop_table" =>
        /\ ~call.pre.exists => (call.exc = "none" /\ table = call.pre)
        /\ DropAgainSame
\* C12, on a Loader that holds an engine (the part of the claim the code keeps):
\* drop_table on a missing table returns without raising and leaves the store
\* as it was, and a second call in a row has the outcome of the first and
\* changes nothing more.
C12_DropMissingWithEngine ==
    (call.op = "drop_table" /\ engine = "Engine") =>
        /\ call.exc = "none"
        /\ ~call.pre.exists => table = call.pre
        /\ ~table.exists
        /\ DropAgainSame

\* C13: disconnect never raises; on a Loader that never connected it leaves no
\* connection, and after a disconnect the Loader's connection is closed and one
\* more disconnect changes nothing and does not raise.
C13_DisconnectIdempotent ==
    call.op = "disconnect" =>
        /\ call.exc = "none"
        /\ nconn = 0 => (connection = 0 /\ live = {})
        /\ connection \notin live
        /\ disconnect(LoaderNow) = LoaderNow
\* C13 witness: a disconnect on a Loader that connected and whose connection an
\* earlier disconnect had already closed
C13_Witness ==
    /\ call.op = "disconnect" /\ call.exc = "none"
    /\ connection # 0 /\ call.value = 0

\* C14: whenever table_exists, load_dataframe or execute_sql is called on a
\* supported backend and a store that is up while the Loader holds no open
\* connection (never connected, or disconnected), the call
\* performs a connect (at least one connection attempt) and, when it returns,
\* the Loader holds an open connection.
C14_ConnectBeforeAccess ==
    [][(/\ call'.op \in {"table_exists", "load", "execute"}
        /\ connection \notin live /\ Supported(db_type) /\ failsLeft = 0)
          => /\ call'.attempts >= 1
             /\ call'.exc = "none" => connection' \in live']_vars

\* C15: connect on a backend kind outside postgresql / mysql raises
\* DatabaseError without making a connection attempt (so without retry or
\* delay): the store's failures in stock are untouched and the Loader has no
\* engine and no connection.
C15_UnsupportedBackend ==
    (call.op = "connect" /\ db_type = "sqlite") =>
        /\ call.exc = "DatabaseError"
        /\ call.attempts = 0
        /\ failsLeft = call.failsBefore
        /\ engine = "None" /\ connection = 0 /\ live = {} /\ nconn = 0
\* C15 witness: a connect on the unsupported kind while the store is down
C15_Witness ==
    /\ call.op = "connect" /\ db_type = "sqlite"
    /\ call.exc = "DatabaseError" /\ call.failsBefore > 0

\* the state of the files and of the run before any file is touched
NothingProcessed ==
    /\ results = EmptyBag
    /\ \A f \in Files : /\ future[f] = Pending
                       /\ log[f] = << >>
                       /\ dispatched[f] = 0
                       /\ faults[f] = {}
                       /\ loc[f] \in {"input", "absent"}
    /\ \A w \in Workers : wfile[w] = 0

\* C16: when main's connect raised, or discovery found the input directory
\* missing, the run ends in main's except clause: no file is extracted,
\* transformed, loaded, archived or moved to the error directory and no result
\* is produced.
C16_FatalBeforeFiles ==
    /\ (call.op = "connect" /\ call.exc # "none")
          => (mainPc \in {"fatal", "exit1"} /\ NothingProcessed)
    /\ mainPc \in {"fatal", "exit1"} => (NothingProcessed /\ summary = NoCall)
\* C16 witness: a run that ended with exit status 1 because the connect raised
\* while a file was waiting in the input directory
C16_Witness ==
    /\ mainPc = "exit1"
    /\ call.op = "connect" /\ call.exc = "DatabaseError"
    /\ \E f \in Files : loc[f] = "input"

\* the rows of the chunks ss, one chunk after the other
RECURSIVE Concat(_)
Concat(ss) == IF ss = << >> THEN << >> ELSE Head(ss) \o Concat(Tail(ss))
\* the generator's file has a header with at least one column and every
\* expected column
GenSchemaValid == gen.hasHeader /\ gen.header # {} /\ gen.expected \subseteq gen.header

\* C17: on a valid file with d data rows the generator never raises, every
\* chunk it yields holds at most batch_size rows, the chunks yielded so far are
\* the file's first rows, each once and in file order, and when the generator
\* is exhausted they are all d rows, in the chunk sizes of ChunkSizes(d).
C17_ChunksPartitionRows ==
    (gen.pc # "none" /\ GenSchemaValid /\ gen.badRow = 0) =>
        /\ gen.exc = "none"
        /\ \A i \in 1..Len(gen.chunks) : Len(gen.chunks[i]) <= batch_size
        /\ Concat(gen.chunks) = [i \in 1..gen.pos |-> i]
        /\ gen.pos <= gen.rows /\ Len(gen.chunks) <= gen.rows + 1
        /\ gen.pc = "done" =>
              /\ gen.pos = gen.rows
              /\ [i \in 1..Len(gen.chunks) |-> Len(gen.chunks[i])] = ChunkSizes(gen.rows)
\* C17 witness: a file of two full chunks and one row, read to its end
C17_Witness ==
    /\ gen.pc = "done" /\ GenSchemaValid /\ gen.badRow = 0
    /\ gen.rows = MaxFileRows /\ Len(gen.chunks) = 3

\* C18: a chunk is yielded only after the schema was validated, and only for a
\* file whose schema is valid; a file without header line or with an invalid
\* schema fails at the first request, an unparsable row fails the request that
\* reads it; and once a request has failed the error raised is ExtractionError,
\* the file is in the error directory (when the relocation works) and the
\* generator is finished: no further request yields a chunk.
C18_ExtractFailureQuarantines ==
    gen.pc # "none" =>
        /\ gen.chunks # << >> => (gen.checked /\ GenSchemaValid)
        /\ (~GenSchemaValid /\ gen.pc # "start") => (gen.pc = "raised" /\ gen.chunks = << >>)
        /\ gen.badRow # 0 => gen.pos < gen.badRow
        /\ (gen.pc = "raised") <=> (gen.exc # "none")
        /\ gen.pc = "raised" =>
              /\ gen.exc = "ExtractionError"
              /\ ~GenSchemaValid \/ gen.badRow # 0
              /\ gen.canMove => loc[GenFile] = "error"
              /\ ~ENABLED NextExtract
        /\ gen.pc # "raised" => loc[GenFile] = "input"
\* C18 witness: a file that failed at a later chunk, after a chunk was yielded,
\* and is in the error directory
C18_Witness ==
    /\ gen.pc = "raised" /\ gen.chunks # << >> /\ gen.badRow > batch_size
    /\ loc[GenFile] = "error"

\* C19: when the relocation of a file that failed in extraction fails too, the
\* file's run still returns a result: a failed one whose error is the
\* extraction error, the last step logged for the file being that raise, and
\* the file is still in the input directory.
C19_FailedQuarantineKeepsError ==
    \A f \in Files :
        "quarantine" \in faults[f] =>
            /\ future[f] # Pending
            /\ ~future[f].success /\ future[f].error = "ExtractionError"
            /\ log[f] # << >>
            /\ log[f][Len(log[f])].op = "raise"
            /\ log[f][Len(log[f])].policy = "ExtractionError"
            /\ loc[f] = "input"
\* C19 witness: the result of a file whose extraction failed at its second chunk
\* and whose relocation failed has been collected
C19_Witness ==
    \E f \in Files :
        /\ faults[f] = {"extract", "quarantine"}
        /\ BagIn(future[f], results)
        /\ log[f][Len(log[f])].idx = 1
\* the generator's side of C19: _move_file_to_error returned the path the file
\* already had, the file is still there, and the error raised is ExtractionError
GenFailedRelocation ==
    (gen.pc = "raised" /\ ~gen.canMove) =>
        (gen.moved_to = "input" /\ loc[GenFile] = "input" /\ gen.exc = "ExtractionError")

\* the chunks of file f (by enumerate() index) and those whose load returned
ChunkIdx(f) == 0..(Len(ChunkSizes(data_rows[f])) - 1)
LoadedIdx(f) == {n \in ChunkIdx(f) : \E i \in LogIdx(f) : log[f][i].op = "loaded" /\ log[f][i].idx = n}
\* every chunk of file f was transformed, validated and loaded
AllChunksLoaded(f) ==
    \A n \in ChunkIdx(f) : \A op \in {"transform", "validate", "loaded"} :
        \E i \in LogIdx(f) : log[f][i].op = op /\ log[f][i].idx = n

\* C20: the result of a file has success = TRUE exactly when every chunk of the
\* file was transformed, validated and loaded and the file was moved to the
\* archive; then nothing failed in its run, rows_processed is the sum of the
\* sizes of its chunks and rows_loaded the sum of the counts its loads returned.
C20_SuccessResult ==
    \A f \in Files :
        future[f] # Pending =>
            /\ future[f].success <=> (AllChunksLoaded(f) /\ loc[f] = "archive")
            /\ future[f].success =>
                  /\ faults[f] = {}
                  /\ future[f].error = "none"
                  /\ future[f].rows_processed
                        = SumOver(ChunkIdx(f), [n \in ChunkIdx(f) |-> ChunkSizes(data_rows[f])[n + 1]])
                  /\ future[f].rows_processed = data_rows[f]
                  /\ future[f].rows_loaded
                        = SumOver(LoadedIdx(f), [n \in ChunkIdx(f) |-> ChunkSizes(data_rows[f])[n + 1]])
\* C20 witness: a successful result for a file of two chunks, and a failed one
\* for a file whose first chunk was loaded
C20_Witness ==
    /\ \E f \in Files : /\ future[f] # Pending /\ future[f].success
                         /\ future[f].rows_loaded = batch_size + 1
    /\ \E f \in Files : /\ future[f] # Pending /\ ~future[f].success
                         /\ LoadedIdx(f) # {}

\* C21: validate_schema without an expected schema returns exactly when the
\* file's schema has a column; with an expected schema it raises
\* ValidationError exactly when an expected column is missing from the file's
\* schema, whatever other columns the file has.
C21_ValidateSchema ==
    (gen.pc \notin {"none", "start"} /\ gen.hasHeader) =>
        /\ gen.expected = {} => (gen.checked <=> gen.header # {})
        /\ gen.expected # {} => (~gen.checked <=> \E c \in gen.expected : c \notin gen.header)
        /\ ~gen.checked <=> gen.cause = "ValidationError"
\* C21 witness: a file with a column more than the expected schema was accepted
C21_Witness ==
    /\ gen.pc \notin {"none", "start"} /\ gen.hasHeader /\ gen.checked
    /\ gen.expected # {} /\ gen.header \ gen.expected # {}


\* the first rule of the list that fails on the chunk, 0 when none does
FirstFailing ==
    LET F == {i \in 1..Len(xf.list) : Fails(xf.list[i], xf.given)}
    IN  IF F = {} THEN 0 ELSE CHOOSE i \in F : \A j \in F : i <= j
\* a call of transform has been made
Transforming == xf.pc # "none" /\ xf.op = "transform" /\ xf.run >= 1
\* a call of validate_data is followed
Validating == xf.pc # "none" /\ xf.op = "validate_data"

\* C22: validate_data is fail-fast: the rules are evaluated in list order, the
\* call raises ValidationError exactly at the first rule that fails, and no
\* rule after it is evaluated, no custom predicate after it invoked; when no
\* rule fails, every rule is evaluated and the call returns.
C22_ValidateFailFast ==
    Validating =>
        LET n == FirstFailing
        IN  /\ \A j \in 1..Len(xf.evaluated) : xf.evaluated[j] = j
            /\ n > 0 => Len(xf.evaluated) <= n /\ \A j \in xf.invoked : j <= n
            /\ xf.pc = "raised" => n > 0 /\ Len(xf.evaluated) = n /\ xf.exc = "ValidationError"
            /\ xf.pc = "returned" => n = 0 /\ Len(xf.evaluated) = Len(xf.list)
\* C22 witness: the call raised at a rule that a custom rule follows
C22_Witness ==
    /\ Validating /\ xf.pc = "raised"
    /\ FirstFailing < Len(xf.list)
    /\ xf.list[FirstFailing + 1].type = "custom" /\ xf.list[FirstFailing + 1].arg = "has_id"

\* the left-to-right composition of the handlers of the list ts on the chunk df
RECURSIVE Compose(_, _, _)
Compose(registry, ts, df) ==
    IF ts = << >> THEN Ok(df)
    ELSE LET r == Handle(registry, Head(ts), df)
         IN  IF r.exc # "none" THEN r ELSE Compose(registry, Tail(ts), r.df)
Reverse(ts) == [k \in 1..Len(ts) |-> ts[Len(ts) + 1 - k]]

\* C23: transform applies the transformations in list order, each to the
\* output of the one before, starting from a copy of the input: what it
\* returns is the left-to-right composition of the handlers, the caller's
\* chunk is unchanged, and a second call on the same chunk and list (the
\* registry being the same) returns the same chunk.
C23_TransformComposes ==
    Transforming =>
        LET reg == xf.at_call[xf.run]
            all == Compose(reg, xf.list, xf.given)
        IN  /\ xf.input = xf.given
            /\ xf.trace[1] = xf.given
            /\ \A k \in 1..(Len(xf.trace) - 1) :
                  Handle(reg, xf.list[k], xf.trace[k]) = Ok(xf.trace[k + 1])
            /\ xf.pc = "returned" => all = Ok(xf.out) /\ Len(xf.trace) = Len(xf.list) + 1
            /\ xf.pc = "raised" => all.exc # "none"
            /\ (xf.pc = "returned" /\ xf.run = 2 /\ xf.at_call[1] = xf.at_call[2])
                  => xf.out = xf.before
\* C23 witness: a second call returned, of a list whose order matters
C23_Witness ==
    /\ Transforming
    /\ xf.pc = "returned" /\ xf.run = 2 /\ xf.at_call[1] = xf.at_call[2]
    /\ Len(xf.list) = 2
    /\ xf.out # xf.given
    /\ Compose(xf.at_call[2], Reverse(xf.list), xf.given) # Ok(xf.out)

\* C24: a custom step whose name is not registered is skipped: the call does
\* not raise at it, the next step receives the chunk the step received, and
\* the rest of the list is applied; a custom step whose name is registered
\* calls the function registered last under that name.
C24_CustomSkipOrLatest ==
    Transforming =>
        /\ \A k \in 1..Len(xf.list) :
              xf.list[k].type = "custom" =>
                 LET t == xf.list[k]
                 IN  /\ (k < Len(xf.trace) /\ t.key \notin DOMAIN xf.latest)
                           => xf.trace[k + 1] = xf.trace[k]
                     /\ (k < Len(xf.trace) /\ t.key \in DOMAIN xf.latest)
                           => CallCustom(xf.latest[t.key], xf.trace[k], t.value) = Ok(xf.trace[k + 1])
                     /\ (xf.pc = "raised" /\ k = Len(xf.trace))
                           => /\ t.key \in DOMAIN xf.latest
                              /\ CallCustom(xf.latest[t.key], xf.trace[k], t.value).exc # "none"
        /\ xf.pc = "returned" => Len(xf.trace) = Len(xf.list) + 1
\* C24 witness: a call returned after it skipped its first step and changed
\* the chunk in the next
C24_Witness ==
    /\ Transforming
    /\ xf.pc = "returned" /\ Len(xf.list) = 2
    /\ xf.list[1].type = "custom" /\ xf.list[1].key \notin DOMAIN xf.latest
    /\ xf.trace[3] # xf.trace[2]

\* C25: when create_table_from_dataframe is given a primary key and adding the
\* key fails, the call raises DatabaseError and the table its creation step
\* made is still there, empty and without a key.
C25_KeyFailureKeepsTable ==
    (call.op = "create_table" /\ call.msg = "Error adding primary key") =>
        /\ call.exc = "DatabaseError"
        /\ table = EmptyTable
\* C25 witness: the key was rejected on a table the call itself created
C25_Witness ==
    /\ call.op = "create_table" /\ call.msg = "Error adding primary key"
    /\ ~call.pre.exists
    /\ table.exists /\ ~table.pk

\* C26: a file with a header and no data row gives no chunk: nothing of it is
\* transformed, validated or loaded, and when nothing fails in its run its
\* result has success = TRUE and 0 rows processed and loaded, the file archived.
C26_HeaderOnlyFile ==
    \A f \in Files :
        data_rows[f] = 0 =>
            /\ \A i \in LogIdx(f) :
                  log[f][i].op \notin {"chunk", "transform", "validate", "load", "loaded"}
            /\ (future[f] # Pending /\ faults[f] = {})
                  => /\ future[f].success
                     /\ future[f].rows_processed = 0 /\ future[f].rows_loaded = 0
                     /\ loc[f] = "archive"
\* C26, the result alone: the part of the claim the code keeps
C26_HeaderOnlyResult ==
    \A f \in Files :
        (data_rows[f] = 0 /\ future[f] # Pending /\ faults[f] = {})
            => /\ future[f].success
               /\ future[f].rows_processed = 0 /\ future[f].rows_loaded = 0
               /\ loc[f] = "archive"

\* C27: after every Loader operation the only connection the Loader has open
\* on the store is the one self.connection refers to: at most one connection
\* is open, none is open and unreferenced.
C27_SingleLiveConnection == live \subseteq {connection}
\* C27, without a second connect: a Loader that connects at most once in its
\* life has at most its one connection open
C27_SingleConnectNoLeak == nconn <= 1 => live \subseteq {connection}

\* C28: after a sequential run over two or more files in which every file
\* succeeded, the table holds the rows of every file: its row count is the sum
\* of rows_loaded over the results.
C28_SequentialKeepsAllRows ==
    (/\ ~parallel /\ RunComplete /\ Len(csv_files) >= 2
     /\ \A f \in Discovered : future[f] # Pending /\ future[f].success)
    => /\ table.exists
       /\ table.rows = summary.total_loaded

\* C29: in a parallel run no step of a load_dataframe call issued with policy
\* "append" (its creation of a table it found missing, its to_sql) takes rows
\* out of the table: the rows other threads' loads have stored stay.
C29_AppendLoadKeepsRows ==
    [][\A w \in Workers :
          (/\ parallel /\ Len(csv_files) > 1
           /\ wpc[w] \in {"load_create", "load_tosql"} /\ if_exists[w] = "append"
           /\ wpc'[w] # wpc[w])
          => table'.rows >= table.rows]_vars

\* the rows the load calls of file f have stored: the sizes of its loaded chunks
StoredBy(f) == SumOver(LoadedIdx(f), [n \in ChunkIdx(f) |-> ChunkSizes(data_rows[f])[n + 1]])

\* C30: the rows_loaded of every result, of a failed file as of a successful
\* one, is the number of rows the file's load calls stored in the table.
C30_RowsLoadedIsStored ==
    \A f \in Files : future[f] # Pending => future[f].rows_loaded = StoredBy(f)
\* C30, successful files alone: the part of the claim the code keeps
C30_RowsLoadedOfSuccess ==
    \A f \in Files :
        (future[f] # Pending /\ future[f].success) => future[f].rows_loaded = StoredBy(f)

\* C31: after a connect that raised DatabaseError with every attempt failed,
\* the Loader holds no engine and no connection (so that the next
\* table_exists, load_dataframe or execute_sql connects anew).
C31_ExhaustedConnectDisconnected ==
    (call.op = "connect" /\ call.exc = "DatabaseError" /\ call.attempts = max_retries)
        => engine = "None" /\ connection = 0
\* C31, the connection alone: an exhausted connect on a Loader that never
\* connected before leaves no connection and opens none on the store
C31_ExhaustedConnectNoConnection ==
    (/\ call.op = "connect" /\ call.exc = "DatabaseError" /\ call.attempts = max_retries
     /\ nconn = 0)
        => connection = 0 /\ live = {}

\* C32: in every run a file is relocated at most once: a file that has left
\* the input directory stays where it was put, a file with a successful result
\* is not in the error directory and a file with a failed result is not in the
\* archive.
C32_RelocatedOnce ==
    /\ [](\A f \in Files :
             future[f] # Pending =>
                /\ future[f].success => loc[f] # "error"
                /\ ~future[f].success => loc[f] # "archive")
    /\ [][\A f \in Files : loc[f] # "input" => loc'[f] = loc[f]]_vars
\* C32 witness: a complete run with one file archived after success and one
\* quarantined after its failure
C32_Witness ==
    /\ RunComplete
    /\ \E f \in Discovered : future[f] # Pending /\ future[f].success /\ loc[f] = "archive"
    /\ \E f \in Discovered : future[f] # Pending /\ ~future[f].success /\ loc[f] = "error"

\* main() has ended: it returned, or left with exit status 1
RunEnded == mainPc \in {"done", "exit1"}

\* C33: every run ends: connect makes at most max_retries attempts, every
\* file whose run was started gets its result, main reaches its end, returning
\* or exiting after a fatal error, and at that end disconnect has been called:
\* the Loader has no connection open.
C33_RunTerminates ==
    /\ [](mainPc = "connect" =>
             \A mode \in FailModes : connect(LoaderNow, mode).attempts <= max_retries)
    /\ \A f \in Files : (dispatched[f] >= 1) ~> (future[f] # Pending)
    /\ <>RunEnded
    /\ [](RunEnded => live = {})
\* C33 witness: a parallel run over all files ended, after it had connected
C33_Witness ==
    /\ mainPc = "done" /\ parallel
    /\ BagCardinality(results) = NumFiles
    /\ nconn >= 1 /\ live = {}
====
